---- MODULE Spec2Model ----
(***************************************************************************)
(* Multi-LLM Control Room: the session manager and the four message        *)
(* routers of the architecture blueprint (SessionManager.send_message,     *)
(* BroadcastRouter, CoordinatorRouter, RoundRobinRouter, VotingRouter),    *)
(* as asyncio coroutines.  A coroutine runs without interruption between   *)
(* two awaits; each action below is one such stretch of code.              *)
(* With them, the browser client: the SessionSetup form, the Home page     *)
(* and its store, one action per event handler.                            *)
(***************************************************************************)
EXTENDS Integers, Sequences, FiniteSets, TLC

(* Bounds of the model. *)
NumModels == 2
NumSessions == 2
MaxOps == 2
MaxSeqOps == 4
MaxTurns == 1
MaxTokens == 2
MaxCostLimit == 2
MaxListed == 2
MaxCreated == 1

Models == 1..NumModels
Sessions == 1..NumSessions

(* The models of the role schema, in configuration order: model_1, ... *)
active_models == [i \in 1..NumModels |-> i]

(* "coordinator": "model_1" of the role schema. *)
coordinator == active_models[1]

(* The pricing table: cost per token of each model (model_1 is a free,    *)
(* local model).                                                           *)
pricing == [e \in Models |-> e - 1]

estimate_cost(e, tokens) == tokens * pricing[e]

VARIABLES
    sessions,         \* SessionManager.sessions: the ids of the sessions created
    session_models,   \* session.models, per session, in configuration order
    routing_pattern,  \* session.routing_pattern, per session
    status,           \* session status: "idle", "active", "paused"
    cost_limit,       \* config.cost_limit, per session
    history,          \* session.history, per session: sequence of messages
    total_tokens,     \* usage metrics, per session
    total_cost,
    usage,            \* usage metrics, per session and per model
    turn_index,       \* RoundRobinRouter.turn_index
    ops,              \* the send_message coroutines, in order of arrival
    events            \* what emit_to_frontend sent, per session

(* The browser client: the SessionSetup form, the Home page, the store. *)
VARIABLES
    models,           \* SessionSetup: the list of models being configured
    sessionStarted,   \* Home: the chat view is shown instead of the form
    session,          \* store: session
    isLoading,        \* store: isLoading
    isConnected,      \* store: isConnected
    ws,               \* store: ws, a socket or NoSocket
    sockets,          \* the WebSockets created: "connecting", "open", "closing", "closed"
    requests,         \* the api.createSession calls in flight, in order of issue
    messages,         \* store: messages
    inbox             \* per session: messages sent by a socket, not yet received

chatVars == <<messages, inbox>>

clientVars == <<models, sessionStarted, session,
                isLoading, isConnected, ws, sockets, requests, chatVars>>

vars == <<sessions, session_models, routing_pattern, status, cost_limit,
          history, total_tokens, total_cost, usage, turn_index, ops, events,
          clientVars>>

(***************************************************************************)
(* Values.                                                                 *)
(***************************************************************************)
(* ws: null, and the id of a session that has none. *)
NoSocket == 0

NoSession == 0

(* coordinator_model_id of a session or of a request that has none. *)
NoModel == 0

NoCall == [st |-> "none", tokens |-> 0, choice |-> 0]
PendingCall == [st |-> "pending", tokens |-> 0, choice |-> 0]
OkCall(t, c) == [st |-> "ok", tokens |-> t, choice |-> c]
FailedCall(kind) == [st |-> kind, tokens |-> 0, choice |-> 0]

FailureKinds == {"failed", "cancelled"}

UserMessage(id) == [role |-> "user", model_id |-> 0, op |-> id]
ModelMessage(r) == [role |-> "assistant", model_id |-> r.model_id, op |-> r.op]

Response(id, e, t, synth) ==
    [op |-> id, model_id |-> e, tokens |-> t,
     cost |-> estimate_cost(e, t), synthesized |-> synth]

ResponseEvent(r) ==
    [type |-> "model_response", op |-> r.op, model_id |-> r.model_id,
     tokens |-> r.tokens, cost |-> r.cost, kind |-> "", synthesized |-> r.synthesized]

CompleteEvent(id, t, c) ==
    [type |-> "response_complete", op |-> id, model_id |-> 0,
     tokens |-> t, cost |-> c, kind |-> "", synthesized |-> FALSE]

ErrorEvent(id, e, kind) ==
    [type |-> "error", op |-> id, model_id |-> e,
     tokens |-> 0, cost |-> 0, kind |-> kind, synthesized |-> FALSE]

RECURSIVE SumTokens(_)
SumTokens(rs) == IF rs = <<>> THEN 0 ELSE Head(rs).tokens + SumTokens(Tail(rs))

RECURSIVE SumCost(_)
SumCost(rs) == IF rs = <<>> THEN 0 ELSE Head(rs).cost + SumCost(Tail(rs))

(* The usage metrics of a session nothing was charged to. *)
NoUsage == [e \in Models |-> [tokens |-> 0, cost |-> 0]]

ModelMessages(rs) == [k \in 1..Len(rs) |-> ModelMessage(rs[k])]

ResponseEvents(rs) == [k \in 1..Len(rs) |-> ResponseEvent(rs[k])]

(***************************************************************************)
(* asyncio.gather over the tasks of the models dispatched:                 *)
(* it returns when all have a result, with the results in the order of     *)
(* the tasks, and raises as soon as one task raised.                       *)
(***************************************************************************)
Dispatched(o) ==
    SelectSeq(session_models[o.session], LAMBDA e : o.calls[e].st # "none")

GatherDone(calls) == \A e \in Models : calls[e].st \in {"none", "ok"}

GatherRaised(calls) == \E e \in Models : calls[e].st \in FailureKinds

(* A gather that hands the results back in the order of completion. *)
GatherResultsInCompletionOrder(o) ==
    LET done == SelectSeq(o.order, LAMBDA e : o.calls[e].st = "ok")
    IN  [k \in 1..Len(done) |-> Response(o.id, done[k], o.calls[done[k]].tokens, FALSE)]

GatherResults(o) ==
    LET sel == Dispatched(o)
    IN  [k \in 1..Len(sel) |-> Response(o.id, sel[k], o.calls[sel[k]].tokens, FALSE)]

(* The task whose exception gather propagates: the first one that raised. *)
FirstRaised(o) ==
    LET bad == SelectSeq(o.order, LAMBDA e : o.calls[e].st \in FailureKinds)
    IN  Head(bad)

(***************************************************************************)
(* A send_message coroutine.  pc is where it is suspended:                 *)
(*   "route"   awaiting the router's fan-out (or its single call)          *)
(*   "plan"    awaiting the coordinator's selection                        *)
(*   "synth"   awaiting coordinator.synthesize                             *)
(*   "vote"    awaiting the votes                                          *)
(*   "done"    returned      "raised"  left by an exception                *)
(* Once it has ended and its caller has taken the outcome, its frame (the  *)
(* tasks, their results) is released; tasks of a gather that raised run    *)
(* on until then, their results read by no one.                            *)
(***************************************************************************)
NewOp(id, s) ==
    [id |-> id, session |-> s, pc |-> "route",
     calls |-> [e \in Models |-> NoCall],
     votes |-> [e \in Models |-> NoCall],
     plan |-> NoCall, synth |-> NoCall,
     payload |-> [parsed |-> FALSE, selected |-> {}],
     order |-> <<>>, winner |-> 0, released |-> FALSE]

InFlight(o) == o.pc \notin {"done", "raised"}

ModelsOf(s) == {session_models[s][k] : k \in 1..Len(session_models[s])}

(* One task per model of the list handed to route. *)
TasksFor(s) == [e \in Models |-> IF e \in ModelsOf(s) THEN PendingCall ELSE NoCall]

OpsOf(s) == {i \in 1..Len(ops) : ops[i].session = s}

(* BroadcastRouter.route up to its await: one task per active model. *)
BroadcastDispatch(o) == [o EXCEPT !.calls = TasksFor(o.session)]

(* A route that answers an empty list of models with no response. *)
RoundRobinDispatchOrSkip(o) ==
    LET m == session_models[o.session]
    IN  IF Len(m) = 0
        THEN o
        ELSE [o EXCEPT !.calls[m[(turn_index % Len(m)) + 1]] = PendingCall]

(* RoundRobinRouter.route up to its await: the model at the cursor.  With  *)
(* an empty list, turn_index % len(active_models) is a division by zero:   *)
(* ZeroDivisionError leaves route before any call is made.                 *)
RoundRobinDispatch(o) ==
    LET m == session_models[o.session]
    IN  IF Len(m) = 0
        THEN [o EXCEPT !.pc = "raised"]
        ELSE [o EXCEPT !.calls[m[(turn_index % Len(m)) + 1]] = PendingCall]

(* CoordinatorRouter.route up to its first await: the coordinator's plan. *)
CoordinatorDispatch(o) == [o EXCEPT !.pc = "plan", !.plan = PendingCall]

(* VotingRouter.route up to its first await: every model proposes. *)
VotingDispatch(o) == [o EXCEPT !.calls = TasksFor(o.session)]

RouteStart(o, pat) ==
    CASE pat = "broadcast" -> BroadcastDispatch(o)
      [] pat = "round_robin" -> RoundRobinDispatch(o)
      [] pat = "coordinator" -> CoordinatorDispatch(o)
      [] pat = "voting" -> VotingDispatch(o)

(***************************************************************************)
(* SessionManager.send_message, first stretch: look the session up, log    *)
(* the incoming message, enter router.route.                               *)
(***************************************************************************)
LogAndRoute(s) ==
    LET id == Len(ops) + 1
        o == RouteStart(NewOp(id, s), routing_pattern[s])
    IN  /\ s \in sessions
        /\ history' = [history EXCEPT ![s] = Append(@, UserMessage(id))]
        /\ ops' = Append(ops, o)
        /\ events' = IF o.pc = "raised"
                     THEN [events EXCEPT ![s] =
                             Append(@, ErrorEvent(id, 0, "ZeroDivisionError"))]
                     ELSE events
        /\ UNCHANGED <<sessions, session_models, routing_pattern,
                       status, cost_limit, total_tokens, total_cost, usage, turn_index>>

(* send_message called for a message that did not come from the page. *)
send_message(s) ==
    /\ LogAndRoute(s)
    /\ UNCHANGED clientVars

(* A client sends while earlier messages may still be in flight. *)
Submit(s) ==
    /\ Len(ops) < MaxOps
    /\ send_message(s)

(* A client that sends its next message only after the previous one ended. *)
SubmitSequential(s, max) ==
    /\ Len(ops) < max
    /\ \A i \in 1..Len(ops) : ops[i].released
    /\ send_message(s)

(***************************************************************************)
(* model.send: the adapter call settles, with a response or an exception.  *)
(* A task that gather started keeps running after gather has raised.       *)
(***************************************************************************)
SettleOk(i, e) ==
    /\ ops[i].calls[e].st = "pending"
    /\ \E t \in 1..MaxTokens :
         ops' = [ops EXCEPT ![i].calls[e] = OkCall(t, 0),
                            ![i].order = Append(@, e)]
    /\ UNCHANGED <<clientVars, sessions, session_models, routing_pattern, status, cost_limit, history, total_tokens,
                   total_cost, usage, turn_index, events>>

SettleFail(i, e) ==
    /\ ops[i].calls[e].st = "pending"
    /\ ops' = [ops EXCEPT ![i].calls[e] = FailedCall("failed"),
                          ![i].order = Append(@, e)]
    /\ UNCHANGED <<clientVars, sessions, session_models, routing_pattern, status, cost_limit, history, total_tokens,
                   total_cost, usage, turn_index, events>>

(***************************************************************************)
(* SessionManager.send_message, last stretch, after router.route returned  *)
(* `responses`: log and emit each, track usage, return.  The totals go to  *)
(* the client in a response_complete event.                                *)
(***************************************************************************)
(* update_usage_metrics: each response is charged to the model it came     *)
(* from and to the session.                                                *)
By(responses, e) == SelectSeq(responses, LAMBDA r : r.model_id = e)

Charge(u, responses) ==
    [e \in Models |-> [tokens |-> u[e].tokens + SumTokens(By(responses, e)),
                       cost |-> u[e].cost + SumCost(By(responses, e))]]

(* An update_usage_metrics that keeps the session's totals only. *)
LogAndEmitSessionTotalsOnly(i, responses) ==
    LET s == ops[i].session
        t == SumTokens(responses)
        c == SumCost(responses)
    IN  /\ history' = [history EXCEPT ![s] = @ \o ModelMessages(responses)]
        /\ events' = [events EXCEPT ![s] =
                        (@ \o ResponseEvents(responses))
                           \o <<CompleteEvent(i, t, c)>>]
        /\ total_tokens' = [total_tokens EXCEPT ![s] = @ + t]
        /\ total_cost' = [total_cost EXCEPT ![s] = @ + c]
        /\ usage' = usage

(* A send_message that keeps the responses of the last operation only. *)
LogAndEmitLatestOnly(i, responses) ==
    LET s == ops[i].session
        t == SumTokens(responses)
        c == SumCost(responses)
    IN  /\ history' = [history EXCEPT ![s] = ModelMessages(responses)]
        /\ events' = [events EXCEPT ![s] =
                        (@ \o ResponseEvents(responses))
                           \o <<CompleteEvent(i, t, c)>>]
        /\ total_tokens' = [total_tokens EXCEPT ![s] = @ + t]
        /\ total_cost' = [total_cost EXCEPT ![s] = @ + c]
        /\ usage' = [usage EXCEPT ![s] = Charge(@, responses)]

LogAndEmit(i, responses) ==
    LET s == ops[i].session
        t == SumTokens(responses)
        c == SumCost(responses)
    IN  /\ history' = [history EXCEPT ![s] = @ \o ModelMessages(responses)]
        /\ events' = [events EXCEPT ![s] =
                        (@ \o ResponseEvents(responses))
                           \o <<CompleteEvent(i, t, c)>>]
        /\ total_tokens' = [total_tokens EXCEPT ![s] = @ + t]
        /\ total_cost' = [total_cost EXCEPT ![s] = @ + c]
        /\ usage' = [usage EXCEPT ![s] = Charge(@, responses)]

(* An exception leaves route and send_message; the transport reports it. *)
Propagate(i, e, kind) ==
    /\ events' = [events EXCEPT ![ops[i].session] = Append(@, ErrorEvent(i, e, kind))]
    /\ UNCHANGED <<history, total_tokens, total_cost, usage>>

(* send_message has ended and its outcome was taken: nothing of the        *)
(* operation is left but what it logged and emitted.                       *)
Release(i) ==
    /\ ~InFlight(ops[i])
    /\ ~ops[i].released
    /\ ops' = [ops EXCEPT ![i] = [NewOp(i, ops[i].session) EXCEPT
                                    !.pc = ops[i].pc, !.released = TRUE]]
    /\ UNCHANGED <<clientVars, sessions, session_models, routing_pattern, status, cost_limit, history, total_tokens,
                   total_cost, usage, turn_index, events>>

(***************************************************************************)
(* BroadcastRouter.route after the await.                                  *)
(***************************************************************************)
BroadcastReturn(i) ==
    /\ routing_pattern[ops[i].session] = "broadcast"
    /\ ops[i].pc = "route"
    /\ ~GatherRaised(ops[i].calls)
    /\ GatherDone(ops[i].calls)
    /\ LogAndEmit(i, GatherResults(ops[i]))
    /\ ops' = [ops EXCEPT ![i].pc = "done"]
    /\ UNCHANGED <<clientVars, sessions, session_models, routing_pattern, status, cost_limit, turn_index>>

BroadcastRaise(i) ==
    /\ routing_pattern[ops[i].session] = "broadcast"
    /\ ops[i].pc = "route"
    /\ GatherRaised(ops[i].calls)
    /\ Propagate(i, FirstRaised(ops[i]), ops[i].calls[FirstRaised(ops[i])].st)
    /\ ops' = [ops EXCEPT ![i].pc = "raised"]
    /\ UNCHANGED <<clientVars, sessions, session_models, routing_pattern, status, cost_limit, turn_index>>

(***************************************************************************)
(* Pause of a session: the outstanding calls of its operations in flight   *)
(* are cancelled.                                                          *)
(***************************************************************************)
CancelPending(o) ==
    LET hit == {e \in Models : o.calls[e].st = "pending"}
        late == SelectSeq(session_models[o.session], LAMBDA e : e \in hit)
    IN  [o EXCEPT !.calls = [e \in Models |->
                                IF e \in hit THEN FailedCall("cancelled") ELSE @[e]],
                  !.order = @ \o late]

Pause(s) ==
    /\ status[s] = "active"
    /\ status' = [status EXCEPT ![s] = "paused"]
    /\ ops' = [i \in 1..Len(ops) |->
                 IF ops[i].session = s /\ InFlight(ops[i])
                 THEN CancelPending(ops[i]) ELSE ops[i]]
    /\ UNCHANGED <<clientVars, sessions, session_models, routing_pattern, cost_limit, history, total_tokens,
                   total_cost, usage, turn_index, events>>

(***************************************************************************)
(* RoundRobinRouter.route after the await: the cursor moves on, the        *)
(* response is returned.  An exception of the call leaves route before     *)
(* the cursor is touched.                                                  *)
(***************************************************************************)
RoundRobinReturn(i) ==
    /\ routing_pattern[ops[i].session] = "round_robin"
    /\ ops[i].pc = "route"
    /\ ~GatherRaised(ops[i].calls)
    /\ GatherDone(ops[i].calls)
    /\ turn_index' = turn_index + 1
    /\ LogAndEmit(i, GatherResults(ops[i]))
    /\ ops' = [ops EXCEPT ![i].pc = "done"]
    /\ UNCHANGED <<clientVars, sessions, session_models, routing_pattern, status, cost_limit>>

RoundRobinRaise(i) ==
    /\ routing_pattern[ops[i].session] = "round_robin"
    /\ ops[i].pc = "route"
    /\ GatherRaised(ops[i].calls)
    /\ Propagate(i, FirstRaised(ops[i]), ops[i].calls[FirstRaised(ops[i])].st)
    /\ ops' = [ops EXCEPT ![i].pc = "raised"]
    /\ UNCHANGED <<clientVars, sessions, session_models, routing_pattern, status, cost_limit, turn_index>>

(***************************************************************************)
(* CoordinatorRouter.route.  The coordinator's answer to "Who should       *)
(* handle this? Return JSON." is a payload that parses to a set of         *)
(* specialists or does not parse.                                          *)
(***************************************************************************)
Payloads ==
    {[parsed |-> FALSE, selected |-> {}]}
        \cup {[parsed |-> TRUE, selected |-> S] : S \in SUBSET Models}

(* The usage of the plan call is not read by the router. *)
SettlePlanOk(i) ==
    /\ ops[i].pc = "plan"
    /\ ops[i].plan.st = "pending"
    /\ \E pl \in Payloads :
         ops' = [ops EXCEPT ![i].plan = OkCall(0, 0), ![i].payload = pl]
    /\ UNCHANGED <<clientVars, sessions, session_models, routing_pattern, status, cost_limit, history, total_tokens,
                   total_cost, usage, turn_index, events>>

SettlePlanFail(i) ==
    /\ ops[i].pc = "plan"
    /\ ops[i].plan.st = "pending"
    /\ ops' = [ops EXCEPT ![i].plan = FailedCall("failed")]
    /\ UNCHANGED <<clientVars, sessions, session_models, routing_pattern, status, cost_limit, history, total_tokens,
                   total_cost, usage, turn_index, events>>

(* parse_selection that answers a payload it cannot parse with no one. *)
parse_selection(payload) == IF payload.parsed THEN payload.selected ELSE {}

(* selected = parse_selection(plan); one task per selected specialist. *)
CoordinatorSelect(i) ==
    /\ ops[i].pc = "plan"
    /\ ops[i].plan.st = "ok"
    /\ ops' = [ops EXCEPT
                 ![i].calls = [e \in Models |->
                                 IF e \in parse_selection(ops[i].payload)
                                 THEN PendingCall ELSE NoCall],
                 ![i].pc = "route"]
    /\ UNCHANGED <<clientVars, sessions, session_models, routing_pattern, status, cost_limit, history, total_tokens,
                   total_cost, usage, turn_index, events>>

(* parse_selection that raises on a payload it cannot parse. *)
CoordinatorParseRaise(i) ==
    /\ ops[i].pc = "plan"
    /\ ops[i].plan.st = "ok"
    /\ ~ops[i].payload.parsed
    /\ Propagate(i, 0, "parse_error")
    /\ ops' = [ops EXCEPT ![i].pc = "raised"]
    /\ UNCHANGED <<clientVars, sessions, session_models, routing_pattern, status, cost_limit, turn_index>>

(* A route that catches the coordinator's failure and runs everyone. *)
CoordinatorPlanFallback(i) ==
    /\ ops[i].pc = "plan"
    /\ ops[i].plan.st \in FailureKinds
    /\ ops' = [ops EXCEPT ![i].calls = [e \in Models |-> PendingCall],
                          ![i].pc = "route"]
    /\ UNCHANGED <<clientVars, sessions, session_models, routing_pattern, status, cost_limit, history, total_tokens,
                   total_cost, usage, turn_index, events>>

(* The coordinator's own call raised: the exception leaves route. *)
CoordinatorPlanRaise(i) ==
    /\ ops[i].pc = "plan"
    /\ ops[i].plan.st \in FailureKinds
    /\ Propagate(i, coordinator, ops[i].plan.st)
    /\ ops' = [ops EXCEPT ![i].pc = "raised"]
    /\ UNCHANGED <<clientVars, sessions, session_models, routing_pattern, status, cost_limit, turn_index>>

(* The specialists' gather returned: coordinator.synthesize(responses). *)
CoordinatorGathered(i) ==
    /\ routing_pattern[ops[i].session] = "coordinator"
    /\ ops[i].pc = "route"
    /\ ~GatherRaised(ops[i].calls)
    /\ GatherDone(ops[i].calls)
    /\ ops' = [ops EXCEPT ![i].pc = "synth", ![i].synth = PendingCall]
    /\ UNCHANGED <<clientVars, sessions, session_models, routing_pattern, status, cost_limit, history, total_tokens,
                   total_cost, usage, turn_index, events>>

CoordinatorGatherRaise(i) ==
    /\ routing_pattern[ops[i].session] = "coordinator"
    /\ ops[i].pc = "route"
    /\ GatherRaised(ops[i].calls)
    /\ Propagate(i, FirstRaised(ops[i]), ops[i].calls[FirstRaised(ops[i])].st)
    /\ ops' = [ops EXCEPT ![i].pc = "raised"]
    /\ UNCHANGED <<clientVars, sessions, session_models, routing_pattern, status, cost_limit, turn_index>>

SettleSynthOk(i) ==
    /\ ops[i].pc = "synth"
    /\ ops[i].synth.st = "pending"
    /\ \E t \in 1..MaxTokens : ops' = [ops EXCEPT ![i].synth = OkCall(t, 0)]
    /\ UNCHANGED <<clientVars, sessions, session_models, routing_pattern, status, cost_limit, history, total_tokens,
                   total_cost, usage, turn_index, events>>

SettleSynthFail(i) ==
    /\ ops[i].pc = "synth"
    /\ ops[i].synth.st = "pending"
    /\ ops' = [ops EXCEPT ![i].synth = FailedCall("failed")]
    /\ UNCHANGED <<clientVars, sessions, session_models, routing_pattern, status, cost_limit, history, total_tokens,
                   total_cost, usage, turn_index, events>>

(* route returns the synthesis, which send_message logs and emits. *)
CoordinatorReturn(i) ==
    /\ ops[i].pc = "synth"
    /\ ops[i].synth.st = "ok"
    /\ LogAndEmit(i, <<Response(i, coordinator, ops[i].synth.tokens, TRUE)>>)
    /\ ops' = [ops EXCEPT ![i].pc = "done"]
    /\ UNCHANGED <<clientVars, sessions, session_models, routing_pattern, status, cost_limit, turn_index>>

CoordinatorSynthRaise(i) ==
    /\ ops[i].pc = "synth"
    /\ ops[i].synth.st \in FailureKinds
    /\ Propagate(i, coordinator, ops[i].synth.st)
    /\ ops' = [ops EXCEPT ![i].pc = "raised"]
    /\ UNCHANGED <<clientVars, sessions, session_models, routing_pattern, status, cost_limit, turn_index>>

(***************************************************************************)
(* VotingRouter.route.  A vote is the position, in the list of proposals   *)
(* handed to model.vote, of the proposal the model prefers.                *)
(***************************************************************************)
(* Phase 1 returned: every model votes on the proposals. *)
VotingProposed(i) ==
    /\ routing_pattern[ops[i].session] = "voting"
    /\ ops[i].pc = "route"
    /\ ~GatherRaised(ops[i].calls)
    /\ GatherDone(ops[i].calls)
    /\ ops' = [ops EXCEPT ![i].pc = "vote",
                          ![i].votes = TasksFor(ops[i].session)]
    /\ UNCHANGED <<clientVars, sessions, session_models, routing_pattern, status, cost_limit, history, total_tokens,
                   total_cost, usage, turn_index, events>>

VotingProposeRaise(i) ==
    /\ routing_pattern[ops[i].session] = "voting"
    /\ ops[i].pc = "route"
    /\ GatherRaised(ops[i].calls)
    /\ Propagate(i, FirstRaised(ops[i]), ops[i].calls[FirstRaised(ops[i])].st)
    /\ ops' = [ops EXCEPT ![i].pc = "raised"]
    /\ UNCHANGED <<clientVars, sessions, session_models, routing_pattern, status, cost_limit, turn_index>>

SettleVoteOk(i, e) ==
    /\ ops[i].pc = "vote"
    /\ ops[i].votes[e].st = "pending"
    /\ \E v \in 1..Len(GatherResults(ops[i])) :
         ops' = [ops EXCEPT ![i].votes[e] = OkCall(0, v)]
    /\ UNCHANGED <<clientVars, sessions, session_models, routing_pattern, status, cost_limit, history, total_tokens,
                   total_cost, usage, turn_index, events>>

SettleVoteFail(i, e) ==
    /\ ops[i].pc = "vote"
    /\ ops[i].votes[e].st = "pending"
    /\ ops' = [ops EXCEPT ![i].votes[e] = FailedCall("failed")]
    /\ UNCHANGED <<clientVars, sessions, session_models, routing_pattern, status, cost_limit, history, total_tokens,
                   total_cost, usage, turn_index, events>>

(* The votes as gather returns them: in the order of the models. *)
GatherVotes(o) ==
    LET m == session_models[o.session]
    IN  [k \in 1..Len(m) |-> o.votes[m[k]].choice]

VoteCount(votes, p) == Cardinality({k \in 1..Len(votes) : votes[k] = p})

(* The proposal with the most votes; among equals, the first of the list. *)
tally_votes(votes, proposals) ==
    LET best == CHOOSE p \in 1..Len(proposals) :
                    /\ \A q \in 1..Len(proposals) :
                           VoteCount(votes, q) <= VoteCount(votes, p)
                    /\ \A q \in 1..(p - 1) :
                           VoteCount(votes, q) < VoteCount(votes, p)
    IN  proposals[best]

(* Phase 2 returned: tally, and return the winner. *)
VotingReturn(i) ==
    /\ ops[i].pc = "vote"
    /\ \A e \in Models : ops[i].votes[e].st \in {"none", "ok"}
    /\ LET winner == tally_votes(GatherVotes(ops[i]), GatherResults(ops[i]))
       IN  /\ LogAndEmit(i, <<winner>>)
           /\ ops' = [ops EXCEPT ![i].pc = "done", ![i].winner = winner.model_id]
    /\ UNCHANGED <<clientVars, sessions, session_models, routing_pattern, status, cost_limit, turn_index>>

VotingVoteRaise(i) ==
    /\ ops[i].pc = "vote"
    /\ \E e \in Models : ops[i].votes[e].st \in FailureKinds
    /\ LET bad == SelectSeq(session_models[ops[i].session],
                            LAMBDA e : ops[i].votes[e].st \in FailureKinds)
       IN  Propagate(i, Head(bad), ops[i].votes[Head(bad)].st)
    /\ ops' = [ops EXCEPT ![i].pc = "raised"]
    /\ UNCHANGED <<clientVars, sessions, session_models, routing_pattern, status, cost_limit, turn_index>>

(***************************************************************************)
(* The browser client.  SessionSetup is mounted while sessionStarted is    *)
(* false; its state is lost when the chat view replaces it.  A model of    *)
(* the form is its id: k stands for `model_k`.                             *)
(***************************************************************************)
MaxModels == 5

Patterns == {"broadcast", "round_robin", "coordinator", "voting"}

ModelNames == {"", "llama2"}

serverVars == <<sessions, session_models, routing_pattern, status, cost_limit,
                history, total_tokens, total_cost, usage, turn_index, ops, events>>

(* An addModel that lets the list grow to one more than the limit. *)
addModelOffByOne(name) ==
    /\ ~sessionStarted
    /\ name # "" /\ Len(models) <= MaxModels
    /\ models' = Append(models, Len(models) + 1)
    /\ UNCHANGED <<serverVars, chatVars, sessionStarted, session,
                   isLoading, isConnected, ws, sockets, requests>>

(* An Add Model button that is there whatever the page shows. *)
addModelAnytime(name) ==
    /\ name # "" /\ Len(models) < MaxModels
    /\ models' = Append(models, Len(models) + 1)
    /\ UNCHANGED <<serverVars, chatVars, sessionStarted, session,
                   isLoading, isConnected, ws, sockets, requests>>

(* The Add Model button; name is what the model name field holds. *)
addModel(name) ==
    /\ ~sessionStarted
    /\ name # "" /\ Len(models) < MaxModels
    /\ models' = Append(models, Len(models) + 1)
    /\ UNCHANGED <<serverVars, chatVars, sessionStarted, session,
                   isLoading, isConnected, ws, sockets, requests>>

(* The Remove button of a model of the list. *)
removeModel(id) ==
    /\ ~sessionStarted
    /\ \E k \in 1..Len(models) : models[k] = id
    /\ models' = SelectSeq(models, LAMBDA m : m # id)
    /\ UNCHANGED <<serverVars, chatVars, sessionStarted, session,
                   isLoading, isConnected, ws, sockets, requests>>

Remove(seq, k) == [j \in 1..(Len(seq) - 1) |-> IF j < k THEN seq[j] ELSE seq[j + 1]]

(* api.createSession: the request as sent (ids are not part of it), its    *)
(* state, and the id of the session in the response.                       *)
Request(pat, ms) ==
    [routing_pattern |-> pat, models |-> ms, coordinator_model_id |-> NoModel,
     st |-> "pending", id |-> NoSession]

(* handleStart, and handleStartSession up to its await; routing is what   *)
(* the routing pattern select holds.                                       *)
handleStart(routing) ==
    /\ ~sessionStarted
    /\ Len(models) > 0
    /\ isLoading' = TRUE
    /\ requests' = Append(requests, Request(routing, models))
    /\ UNCHANGED <<serverVars, chatVars, models, sessionStarted,
                   session, isConnected, ws, sockets>>

(* init_model for each model of the configuration: model_1, model_2, ... *)
init_models(ms) == [k \in 1..Len(ms) |-> k]

(* SessionManager.create_session, answering request r. *)
create_session(r) ==
    /\ requests[r].st = "pending"
    /\ \E id \in Sessions \ sessions :
         /\ \A other \in Sessions \ sessions : id <= other
         /\ sessions' = sessions \cup {id}
         /\ session_models' = [session_models EXCEPT
                                 ![id] = init_models(requests[r].models)]
         /\ routing_pattern' = [routing_pattern EXCEPT
                                  ![id] = requests[r].routing_pattern]
         /\ requests' = [requests EXCEPT ![r].st = "created", ![r].id = id]
    /\ UNCHANGED <<status, cost_limit, history, total_tokens, total_cost, usage,
                   turn_index, ops, events, chatVars, models,
                   sessionStarted, session, isLoading, isConnected, ws, sockets>>

(* The request fails: no response, or a response that is not ok. *)
createSessionFails(r) ==
    /\ requests[r].st = "pending"
    /\ requests' = [requests EXCEPT ![r].st = "failed"]
    /\ UNCHANGED <<serverVars, chatVars, models, sessionStarted,
                   session, isLoading, isConnected, ws, sockets>>

(* connectWebSocket: a new socket, with its handlers, becomes the store's. *)
Socket(id) == [session |-> id, state |-> "connecting", received |-> 0]

(* handleStartSession after its await: the session is in the store, the    *)
(* socket is created, the chat view replaces the form.                     *)
handleStartSessionResolved(r) ==
    /\ requests[r].st = "created"
    /\ requests' = Remove(requests, r)
    /\ session' = [id |-> requests[r].id,
                   routing_pattern |-> requests[r].routing_pattern,
                   models |-> requests[r].models,
                   coordinator_model_id |-> NoModel,
                   total_tokens |-> 0, total_cost |-> 0, status |-> "active"]
    /\ sockets' = Append(sockets, Socket(requests[r].id))
    /\ ws' = Len(sockets) + 1
    /\ sessionStarted' = TRUE
    /\ models' = <<>>
    /\ UNCHANGED <<serverVars, chatVars, isLoading, isConnected>>

(* handleStartSession's catch. *)
handleStartSessionRejected(r) ==
    /\ requests[r].st = "failed"
    /\ requests' = Remove(requests, r)
    /\ isLoading' = FALSE
    /\ UNCHANGED <<serverVars, chatVars, models, sessionStarted,
                   session, isConnected, ws, sockets>>

(* socket.onopen, socket.onclose (socket.onerror does the same). *)
onopen(k) ==
    /\ sockets[k].state = "connecting"
    /\ sockets' = [sockets EXCEPT ![k].state = "open",
                                  ![k].received = Len(events[sockets[k].session])]
    /\ isConnected' = TRUE
    /\ isLoading' = FALSE
    /\ UNCHANGED <<serverVars, chatVars, models, sessionStarted,
                   session, ws, requests>>

onclose(k) ==
    /\ sockets[k].state # "closed"
    /\ sockets' = [sockets EXCEPT ![k].state = "closed"]
    /\ isConnected' = FALSE
    /\ isLoading' = FALSE
    /\ UNCHANGED <<serverVars, chatVars, models, sessionStarted,
                   session, ws, requests>>

(* The New Session button of the chat view.  ws.close() starts the         *)
(* closing handshake; onclose runs later.                                  *)
handleReset ==
    /\ sessionStarted
    /\ sockets' = IF ws # NoSocket /\ sockets[ws].state # "closed"
                  THEN [sockets EXCEPT ![ws].state = "closing"]
                  ELSE sockets
    /\ ws' = NoSocket
    /\ session' = [id |-> NoSession, routing_pattern |-> "broadcast",
                   models |-> <<>>, coordinator_model_id |-> NoModel,
                   total_tokens |-> 0, total_cost |-> 0, status |-> "idle"]
    /\ sessionStarted' = FALSE
    /\ isConnected' = FALSE
    /\ messages' = <<>>
    /\ UNCHANGED <<serverVars, inbox, models, isLoading, requests>>

(***************************************************************************)
(* The chat view.  A socket delivers the events of its session in the      *)
(* order in which they were emitted, as long as it is open: once close()   *)
(* was called no message event is fired, but the close event still is.     *)
(* The handlers of a socket write to the store whether or not the socket   *)
(* is still the store's.                                                   *)
(***************************************************************************)
(* handleSendMessage: what ws.send hands to an open socket goes to the     *)
(* server; a closing or closed socket discards it.                         *)
handleSendMessage ==
    /\ sessionStarted
    /\ ws # NoSocket /\ isConnected
    /\ isLoading' = TRUE
    /\ inbox' = IF sockets[ws].state = "open"
                THEN [inbox EXCEPT ![sockets[ws].session] = @ + 1]
                ELSE inbox
    /\ UNCHANGED <<serverVars, models, sessionStarted, session, isConnected,
                   ws, sockets, requests, messages>>

(* ChatInput.handleSubmit: the form is disabled while loading or           *)
(* disconnected.                                                           *)
handleSubmit ==
    /\ ~(isLoading \/ ~isConnected)
    /\ handleSendMessage

(* The server's end of the socket receives a message: send_message. *)
receive(s) ==
    /\ inbox[s] > 0
    /\ inbox' = [inbox EXCEPT ![s] = @ - 1]
    /\ LogAndRoute(s)
    /\ UNCHANGED <<models, sessionStarted, session, isLoading, isConnected,
                   ws, sockets, requests, messages>>

ChatMessage(ev) == [role |-> "assistant", model_id |-> ev.model_id, op |-> ev.op]

(* An onmessage whose error branch also gives the session up. *)
onmessageErrorEndsSession(k) ==
    /\ sockets[k].state = "open"
    /\ sockets[k].received < Len(events[sockets[k].session])
    /\ LET ev == events[sockets[k].session][sockets[k].received + 1]
       IN  /\ sockets' = [sockets EXCEPT ![k].received = @ + 1]
           /\ messages' = IF ev.type = "model_response"
                          THEN Append(messages, ChatMessage(ev))
                          ELSE messages
           /\ session' = CASE ev.type = "response_complete" ->
                                [session EXCEPT !.total_tokens = @ + ev.tokens,
                                                !.total_cost = @ + ev.cost]
                           [] ev.type = "error" ->
                                [session EXCEPT !.status = "idle"]
                           [] OTHER -> session
           /\ isLoading' = FALSE
    /\ UNCHANGED <<serverVars, inbox, models, sessionStarted, isConnected,
                   ws, requests>>

(* An updateSessionStats that stores what the event carries. *)
onmessageStoresStats(k) ==
    /\ sockets[k].state = "open"
    /\ sockets[k].received < Len(events[sockets[k].session])
    /\ LET ev == events[sockets[k].session][sockets[k].received + 1]
       IN  /\ sockets' = [sockets EXCEPT ![k].received = @ + 1]
           /\ messages' = IF ev.type = "model_response"
                          THEN Append(messages, ChatMessage(ev))
                          ELSE messages
           /\ session' = IF ev.type = "response_complete"
                         THEN [session EXCEPT !.total_tokens = ev.tokens,
                                              !.total_cost = ev.cost]
                         ELSE session
           /\ isLoading' = FALSE
    /\ UNCHANGED <<serverVars, inbox, models, sessionStarted, isConnected,
                   ws, requests>>

(* socket.onmessage: model_response adds a message, response_complete      *)
(* adds to the session's totals, error alerts; each clears isLoading.      *)
onmessage(k) ==
    /\ sockets[k].state = "open"
    /\ sockets[k].received < Len(events[sockets[k].session])
    /\ LET ev == events[sockets[k].session][sockets[k].received + 1]
       IN  /\ sockets' = [sockets EXCEPT ![k].received = @ + 1]
           /\ messages' = IF ev.type = "model_response"
                          THEN Append(messages, ChatMessage(ev))
                          ELSE messages
           /\ session' = IF ev.type = "response_complete"
                         THEN [session EXCEPT !.total_tokens = @ + ev.tokens,
                                              !.total_cost = @ + ev.cost]
                         ELSE session
           /\ isLoading' = FALSE
    /\ UNCHANGED <<serverVars, inbox, models, sessionStarted, isConnected,
                   ws, requests>>

(***************************************************************************)
(* Specifications.                                                         *)
(***************************************************************************)
(* The state of the store, of Home and of SessionSetup when the page loads. *)
ClientInit ==
    /\ models = <<>>
    /\ sessionStarted = FALSE
    /\ session = [id |-> NoSession, routing_pattern |-> "broadcast",
                  models |-> <<>>, coordinator_model_id |-> NoModel,
                  total_tokens |-> 0, total_cost |-> 0, status |-> "idle"]
    /\ isLoading = FALSE
    /\ isConnected = FALSE
    /\ ws = NoSocket
    /\ sockets = <<>>
    /\ requests = <<>>
    /\ messages = <<>>
    /\ inbox = [s \in Sessions |-> 0]

(* Sessions of the role schema's models, all with the same pattern. *)
ServerInit(pat) ==
    /\ sessions = Sessions
    /\ session_models = [s \in Sessions |-> active_models]
    /\ routing_pattern = [s \in Sessions |-> pat]
    /\ status = [s \in Sessions |-> "active"]
    /\ cost_limit = [s \in Sessions |-> MaxCostLimit]
    /\ history = [s \in Sessions |-> <<>>]
    /\ total_tokens = [s \in Sessions |-> 0]
    /\ total_cost = [s \in Sessions |-> 0]
    /\ usage = [s \in Sessions |-> NoUsage]
    /\ turn_index = 0
    /\ ops = <<>>
    /\ events = [s \in Sessions |-> <<>>]

(* The server called for these sessions; the page is not used. *)
InitWith(pat) ==
    /\ ClientInit
    /\ ServerInit(pat)

(* Broadcast sessions; messages one after the other; pause. *)
Init == InitWith("broadcast")

Next ==
    \/ \E i \in 1..Len(ops) : Release(i)
    \/ \E s \in Sessions : SubmitSequential(s, MaxOps)
    \/ \E i \in 1..Len(ops), e \in Models : SettleOk(i, e)
    \/ \E i \in 1..Len(ops), e \in Models : SettleFail(i, e)
    \/ \E i \in 1..Len(ops) : BroadcastReturn(i)
    \/ \E i \in 1..Len(ops) : BroadcastRaise(i)
    \/ \E s \in Sessions : Pause(s)

Spec == Init /\ [][Next]_vars

(* One broadcast session; messages one after the other; pause. *)
NextBroadcast ==
    \/ \E i \in 1..Len(ops) : Release(i)
    \/ SubmitSequential(1, MaxOps)
    \/ \E i \in 1..Len(ops), e \in Models : SettleOk(i, e)
    \/ \E i \in 1..Len(ops), e \in Models : SettleFail(i, e)
    \/ \E i \in 1..Len(ops) : BroadcastReturn(i)
    \/ \E i \in 1..Len(ops) : BroadcastRaise(i)
    \/ Pause(1)

SpecBroadcast == Init /\ [][NextBroadcast]_vars

(* One broadcast session; messages sent while others are in flight. *)
NextBroadcastConcurrent ==
    \/ \E i \in 1..Len(ops) : Release(i)
    \/ Submit(1)
    \/ \E i \in 1..Len(ops), e \in Models : SettleOk(i, e)
    \/ \E i \in 1..Len(ops), e \in Models : SettleFail(i, e)
    \/ \E i \in 1..Len(ops) : BroadcastReturn(i)
    \/ \E i \in 1..Len(ops) : BroadcastRaise(i)

SpecBroadcastConcurrent == Init /\ [][NextBroadcastConcurrent]_vars

(* One round-robin session; messages one after the other. *)
InitRoundRobin == InitWith("round_robin")

NextRoundRobin ==
    \/ \E i \in 1..Len(ops) : Release(i)
    \/ SubmitSequential(1, MaxSeqOps)
    \/ \E i \in 1..Len(ops), e \in Models : SettleOk(i, e)
    \/ \E i \in 1..Len(ops), e \in Models : SettleFail(i, e)
    \/ \E i \in 1..Len(ops) : RoundRobinReturn(i)
    \/ \E i \in 1..Len(ops) : RoundRobinRaise(i)

SpecRoundRobin == InitRoundRobin /\ [][NextRoundRobin]_vars

(* One round-robin session created with any list of models, the empty    *)
(* one included; messages one after the other.                            *)
ModelLists == {SubSeq(active_models, 1, n) : n \in 0..NumModels}

InitAnyList ==
    /\ ClientInit
    /\ sessions = Sessions
    /\ \E m \in ModelLists : session_models = [s \in Sessions |-> m]
    /\ routing_pattern = [s \in Sessions |-> "round_robin"]
    /\ status = [s \in Sessions |-> "active"]
    /\ cost_limit = [s \in Sessions |-> MaxCostLimit]
    /\ history = [s \in Sessions |-> <<>>]
    /\ total_tokens = [s \in Sessions |-> 0]
    /\ total_cost = [s \in Sessions |-> 0]
    /\ usage = [s \in Sessions |-> NoUsage]
    /\ turn_index = 0
    /\ ops = <<>>
    /\ events = [s \in Sessions |-> <<>>]

SpecAnyList == InitAnyList /\ [][NextRoundRobin]_vars

(* Round-robin sessions; messages sent while others are in flight. *)
NextConcurrent ==
    \/ \E i \in 1..Len(ops) : Release(i)
    \/ \E s \in Sessions : Submit(s)
    \/ \E i \in 1..Len(ops), e \in Models : SettleOk(i, e)
    \/ \E i \in 1..Len(ops), e \in Models : SettleFail(i, e)
    \/ \E i \in 1..Len(ops) : RoundRobinReturn(i)
    \/ \E i \in 1..Len(ops) : RoundRobinRaise(i)

SpecConcurrent == InitRoundRobin /\ [][NextConcurrent]_vars

(* One coordinator session; messages one after the other. *)
InitCoordinator == InitWith("coordinator")

NextCoordinator ==
    \/ \E i \in 1..Len(ops) : Release(i)
    \/ SubmitSequential(1, MaxTurns)
    \/ \E i \in 1..Len(ops) : SettlePlanOk(i)
    \/ \E i \in 1..Len(ops) : SettlePlanFail(i)
    \/ \E i \in 1..Len(ops) : CoordinatorSelect(i)
    \/ \E i \in 1..Len(ops) : CoordinatorParseRaise(i)
    \/ \E i \in 1..Len(ops) : CoordinatorPlanRaise(i)
    \/ \E i \in 1..Len(ops), e \in Models : SettleOk(i, e)
    \/ \E i \in 1..Len(ops), e \in Models : SettleFail(i, e)
    \/ \E i \in 1..Len(ops) : CoordinatorGathered(i)
    \/ \E i \in 1..Len(ops) : CoordinatorGatherRaise(i)
    \/ \E i \in 1..Len(ops) : SettleSynthOk(i)
    \/ \E i \in 1..Len(ops) : SettleSynthFail(i)
    \/ \E i \in 1..Len(ops) : CoordinatorReturn(i)
    \/ \E i \in 1..Len(ops) : CoordinatorSynthRaise(i)

SpecCoordinator == InitCoordinator /\ [][NextCoordinator]_vars

(* One voting session; messages one after the other. *)
InitVoting == InitWith("voting")

NextVoting ==
    \/ \E i \in 1..Len(ops) : Release(i)
    \/ SubmitSequential(1, MaxTurns)
    \/ \E i \in 1..Len(ops), e \in Models : SettleOk(i, e)
    \/ \E i \in 1..Len(ops), e \in Models : SettleFail(i, e)
    \/ \E i \in 1..Len(ops) : VotingProposed(i)
    \/ \E i \in 1..Len(ops) : VotingProposeRaise(i)
    \/ \E i \in 1..Len(ops), e \in Models : SettleVoteOk(i, e)
    \/ \E i \in 1..Len(ops), e \in Models : SettleVoteFail(i, e)
    \/ \E i \in 1..Len(ops) : VotingReturn(i)
    \/ \E i \in 1..Len(ops) : VotingVoteRaise(i)

SpecVoting == InitVoting /\ [][NextVoting]_vars

(* The page from its load: configuring, starting and resetting sessions;  *)
(* no session exists on the server yet.                                    *)
InitSetup ==
    /\ ClientInit
    /\ sessions = {}
    /\ session_models = [s \in Sessions |-> <<>>]
    /\ routing_pattern = [s \in Sessions |-> "broadcast"]
    /\ status = [s \in Sessions |-> "idle"]
    /\ cost_limit = [s \in Sessions |-> MaxCostLimit]
    /\ history = [s \in Sessions |-> <<>>]
    /\ total_tokens = [s \in Sessions |-> 0]
    /\ total_cost = [s \in Sessions |-> 0]
    /\ usage = [s \in Sessions |-> NoUsage]
    /\ turn_index = 0
    /\ ops = <<>>
    /\ events = [s \in Sessions |-> <<>>]

(* A user who clicks Start and waits for the outcome. *)
StartAndWait(routing) ==
    /\ requests = <<>>
    /\ handleStart(routing)

(* A user who configures at most MaxListed models at a time. *)
AddSome(name) ==
    /\ Len(models) < MaxListed
    /\ addModel(name)

(* The form alone: any sequence of Add and Remove, Start, and requests     *)
(* that fail.                                                              *)
NextForm ==
    \/ \E name \in ModelNames : addModel(name)
    \/ \E id \in 1..MaxModels : removeModel(id)
    \/ \E pat \in Patterns : StartAndWait(pat)
    \/ \E r \in 1..Len(requests) : createSessionFails(r)
    \/ \E r \in 1..Len(requests) : handleStartSessionRejected(r)

SpecForm == InitSetup /\ [][NextForm]_vars

(* A server that is asked for at most MaxCreated sessions. *)
CreateSome(r) ==
    /\ Cardinality(sessions) < MaxCreated
    /\ create_session(r)

NextSetup ==
    \/ \E name \in ModelNames : AddSome(name)
    \/ \E id \in 1..MaxModels : removeModel(id)
    \/ \E pat \in Patterns : StartAndWait(pat)
    \/ \E r \in 1..Len(requests) : CreateSome(r)
    \/ \E r \in 1..Len(requests) : createSessionFails(r)
    \/ \E r \in 1..Len(requests) : handleStartSessionResolved(r)
    \/ \E r \in 1..Len(requests) : handleStartSessionRejected(r)
    \/ \E k \in 1..Len(sockets) : onopen(k)
    \/ \E k \in 1..Len(sockets) : onclose(k)
    \/ handleReset

SpecSetup == InitSetup /\ [][NextSetup]_vars

(* The chat view of round-robin session 1, which the page has started     *)
(* with the role schema's models and whose socket is open.                 *)
InitChat ==
    /\ ServerInit("round_robin")
    /\ models = <<>>
    /\ sessionStarted = TRUE
    /\ session = [id |-> 1, routing_pattern |-> "round_robin",
                  models |-> active_models, coordinator_model_id |-> NoModel,
                  total_tokens |-> 0, total_cost |-> 0, status |-> "active"]
    /\ isLoading = FALSE
    /\ isConnected = TRUE
    /\ ws = 1
    /\ sockets = <<[session |-> 1, state |-> "open", received |-> 0]>>
    /\ requests = <<>>
    /\ messages = <<>>
    /\ inbox = [s \in Sessions |-> 0]

(* A user who sends at most MaxOps messages. *)
SubmitSome ==
    /\ Len(ops) + inbox[1] < MaxOps
    /\ handleSubmit

NextChat ==
    \/ SubmitSome
    \/ \E s \in Sessions : receive(s)
    \/ \E i \in 1..Len(ops), e \in Models : SettleOk(i, e)
    \/ \E i \in 1..Len(ops), e \in Models : SettleFail(i, e)
    \/ \E i \in 1..Len(ops) : RoundRobinReturn(i)
    \/ \E i \in 1..Len(ops) : RoundRobinRaise(i)
    \/ \E i \in 1..Len(ops) : Release(i)
    \/ \E k \in 1..Len(sockets) : onmessage(k)

SpecChat == InitChat /\ [][NextChat]_vars

(* The chat view with what the server's event loop and the adapters       *)
(* guarantee: a message that arrived is taken, a call settles, a           *)
(* coroutine that can run does, an event that was emitted is delivered.    *)
(* Nothing obliges the user to send.                                       *)
Settle == \E i \in 1..Len(ops), e \in Models : SettleOk(i, e) \/ SettleFail(i, e)

FairChat ==
    /\ WF_vars(\E s \in Sessions : receive(s))
    /\ WF_vars(Settle)
    /\ WF_vars(\E i \in 1..Len(ops) : RoundRobinReturn(i))
    /\ WF_vars(\E i \in 1..Len(ops) : RoundRobinRaise(i))
    /\ WF_vars(\E k \in 1..Len(sockets) : onmessage(k))

SpecChatFair == InitChat /\ [][NextChat]_vars /\ FairChat

(* The chat view of session 1 until the user ends the session or the       *)
(* socket closes.                                                          *)
NextChatEnd ==
    \/ NextChat
    \/ handleReset
    \/ \E k \in 1..Len(sockets) : onclose(k)

SpecChatEnd == InitChat /\ [][NextChatEnd]_vars

(* The chat view of round-robin session 1, the only session so far; the    *)
(* user sends messages, ends the session with New Session and starts      *)
(* round-robin sessions again.                                             *)
InitReset ==
    /\ sessions = {1}
    /\ session_models = [s \in Sessions |-> IF s = 1 THEN active_models ELSE <<>>]
    /\ routing_pattern = [s \in Sessions |-> "round_robin"]
    /\ status = [s \in Sessions |-> IF s = 1 THEN "active" ELSE "idle"]
    /\ cost_limit = [s \in Sessions |-> MaxCostLimit]
    /\ history = [s \in Sessions |-> <<>>]
    /\ total_tokens = [s \in Sessions |-> 0]
    /\ total_cost = [s \in Sessions |-> 0]
    /\ usage = [s \in Sessions |-> NoUsage]
    /\ turn_index = 0
    /\ ops = <<>>
    /\ events = [s \in Sessions |-> <<>>]
    /\ models = <<>>
    /\ sessionStarted = TRUE
    /\ session = [id |-> 1, routing_pattern |-> "round_robin",
                  models |-> active_models, coordinator_model_id |-> NoModel,
                  total_tokens |-> 0, total_cost |-> 0, status |-> "active"]
    /\ isLoading = FALSE
    /\ isConnected = TRUE
    /\ ws = 1
    /\ sockets = <<[session |-> 1, state |-> "open", received |-> 0]>>
    /\ requests = <<>>
    /\ messages = <<>>
    /\ inbox = [s \in Sessions |-> 0]

(* A user who configures one model and starts. *)
AddFirst(name) ==
    /\ models = <<>>
    /\ addModel(name)

RECURSIVE Waiting(_)
Waiting(n) == IF n = 0 THEN 0 ELSE inbox[n] + Waiting(n - 1)

(* A user who sends at most MaxOps messages, over all sessions. *)
SubmitFew ==
    /\ Len(ops) + Waiting(NumSessions) < MaxOps
    /\ handleSubmit

NextReset ==
    \/ SubmitFew
    \/ \E s \in Sessions : receive(s)
    \/ \E i \in 1..Len(ops), e \in Models : SettleOk(i, e)
    \/ \E i \in 1..Len(ops), e \in Models : SettleFail(i, e)
    \/ \E i \in 1..Len(ops) : RoundRobinReturn(i)
    \/ \E i \in 1..Len(ops) : RoundRobinRaise(i)
    \/ \E i \in 1..Len(ops) : Release(i)
    \/ \E k \in 1..Len(sockets) : onmessage(k)
    \/ \E k \in 1..Len(sockets) : onopen(k)
    \/ \E k \in 1..Len(sockets) : onclose(k)
    \/ handleReset
    \/ \E name \in ModelNames : AddFirst(name)
    \/ StartAndWait("round_robin")
    \/ \E r \in 1..Len(requests) : create_session(r)
    \/ \E r \in 1..Len(requests) : handleStartSessionResolved(r)

SpecReset == InitReset /\ [][NextReset]_vars

(***************************************************************************)
(* Properties.                                                             *)
(***************************************************************************)
EventsOf(i) == SelectSeq(events[ops[i].session], LAMBDA ev : ev.op = i)

EventsOfType(i, type) == SelectSeq(EventsOf(i), LAMBDA ev : ev.type = type)

EventsAbout(i, type, e) ==
    SelectSeq(EventsOf(i), LAMBDA ev : ev.type = type /\ ev.model_id = e)

Ended(i) == ~InFlight(ops[i]) /\ ~ops[i].released

NumDispatched(i) == Len(Dispatched(ops[i]))

(* C1: every Broadcast operation with N endpoints that has ended emitted   *)
(* N response-or-failure events and then exactly one complete event,       *)
(* whose totals are the sums over its response events.                     *)
BroadcastEventCount ==
    \A i \in 1..Len(ops) :
        (routing_pattern[ops[i].session] = "broadcast" /\ Ended(i)) =>
            LET evs == EventsOf(i)
                resp == EventsOfType(i, "model_response")
                fail == EventsOfType(i, "error")
                comp == EventsOfType(i, "response_complete")
            IN  /\ Len(resp) + Len(fail) = NumDispatched(i)
                /\ Len(comp) = 1
                /\ evs[Len(evs)].type = "response_complete"
                /\ comp[1].tokens = SumTokens(resp)
                /\ comp[1].cost = SumCost(resp)

(* C2: when a Broadcast operation has ended, every endpoint it dispatched  *)
(* has exactly one response or failure event, and every endpoint whose     *)
(* call succeeded has its response event, whatever its siblings did.       *)
BroadcastIsolation ==
    \A i \in 1..Len(ops) :
        (routing_pattern[ops[i].session] = "broadcast" /\ Ended(i)) =>
            \A e \in Models :
                ops[i].calls[e].st # "none" =>
                    /\ Len(EventsAbout(i, "model_response", e))
                         + Len(EventsAbout(i, "error", e)) = 1
                    /\ ops[i].calls[e].st = "ok" =>
                         Len(EventsAbout(i, "model_response", e)) = 1

(* C3: the k-th message of a round-robin session (k from 0) is dispatched  *)
(* to endpoints[k mod len(endpoints)], whatever the earlier calls did.     *)
RoundRobinOrder ==
    \A i \in 1..Len(ops) :
        (routing_pattern[ops[i].session] = "round_robin" /\ ~ops[i].released) =>
            LET k == Cardinality({j \in OpsOf(ops[i].session) : j < i})
                m == session_models[ops[i].session]
            IN  Dispatched(ops[i]) = <<m[(k % Len(m)) + 1]>>

(* C5: no endpoint call is dispatched when the session's cumulative cost   *)
(* plus the endpoint's estimated cost is above the ceiling.                *)
NewlyDispatched(i, e) ==
    /\ ops'[i].calls[e].st = "pending"
    /\ i <= Len(ops) => ops[i].calls[e].st = "none"

BudgetPreCheck ==
    [][\A i \in 1..Len(ops') : \A e \in Models :
          NewlyDispatched(i, e) =>
              total_cost[ops'[i].session] + estimate_cost(e, MaxTokens)
                  <= cost_limit[ops'[i].session]]_vars

(* C6: a session has at most one routing operation in flight. *)
OneInFlightPerSession ==
    \A s \in Sessions :
        Cardinality({i \in OpsOf(s) : InFlight(ops[i])}) <= 1

(* C7: once every message of a session has its complete event, the         *)
(* history holds the user messages in arrival order, each followed by the  *)
(* responses of its own operation and by no other's.                       *)
HistoryInArrivalOrder ==
    \A s \in Sessions :
        (\A i \in OpsOf(s) : ops[i].pc = "done") =>
            LET h == history[s]
            IN  /\ \A p \in 2..Len(h) :
                       h[p].role = "assistant" => h[p - 1].op = h[p].op
                /\ \A p, q \in 1..Len(h) :
                       (p < q /\ h[p].role = "user" /\ h[q].role = "user")
                           => h[p].op < h[q].op

(* C8: a Broadcast operation whose session was paused while k of its calls *)
(* were outstanding still ends with one terminal event per dispatched      *)
(* endpoint, the cancelled ones as failures of kind "cancelled", and one   *)
(* complete event.                                                         *)
CancellationConsistency ==
    \A i \in 1..Len(ops) :
        (/\ routing_pattern[ops[i].session] = "broadcast"
         /\ Ended(i)
         /\ \E e \in Models : ops[i].calls[e].st = "cancelled") =>
            /\ Len(EventsOfType(i, "model_response"))
                 + Len(EventsOfType(i, "error")) = NumDispatched(i)
            /\ \A e \in Models :
                   ops[i].calls[e].st = "cancelled" =>
                       \E k \in 1..Len(EventsOf(i)) :
                           /\ EventsOf(i)[k].type = "error"
                           /\ EventsOf(i)[k].model_id = e
                           /\ EventsOf(i)[k].kind = "cancelled"
            /\ Len(EventsOfType(i, "response_complete")) = 1

(* C9: in a Coordinator operation whose selection payload did not parse,  *)
(* or parsed to an empty selection, every specialist is dispatched.        *)
CoordinatorFallsBackToAll ==
    \A i \in 1..Len(ops) :
        (/\ routing_pattern[ops[i].session] = "coordinator"
         /\ ops[i].plan.st = "ok"
         /\ ops[i].pc # "plan"
         /\ (~ops[i].payload.parsed \/ ops[i].payload.selected = {})) =>
            \A e \in Models : ops[i].calls[e].st # "none"

IndexOf(a) == CHOOSE k \in 1..Len(active_models) : active_models[k] = a

VotesFor(o, a) ==
    Cardinality({e \in Models :
                    /\ o.votes[e].st = "ok"
                    /\ GatherResults(o)[o.votes[e].choice].model_id = a})

EndpointCountInRange ==
    /\ Len(models) <= MaxModels
    /\ \A r \in 1..Len(requests) :
           /\ Len(requests[r].models) >= 1
           /\ Len(requests[r].models) <= MaxModels

(* A request issued with a full list, which Add Model no longer extends. *)
StartedWithFullList ==
    /\ Len(models) = MaxModels
    /\ ~ENABLED (\E name \in ModelNames : addModel(name))
    /\ \E r \in 1..Len(requests) : Len(requests[r].models) = MaxModels

(* C18: no two models of the form's list have the same id. *)
UniqueModelIds ==
    \A j, k \in 1..Len(models) : j # k => models[j] # models[k]

IdsOf(ms) == {ms[k] : k \in 1..Len(ms)}

(* C19: a coordinator-pattern configuration is accepted, and a session is  *)
(* active from it, only if it names a coordinator that is one of its       *)
(* models.                                                                 *)
CoordinatorInSet ==
    /\ \A r \in 1..Len(requests) :
           (requests[r].st = "created"
              /\ requests[r].routing_pattern = "coordinator")
               => requests[r].coordinator_model_id \in IdsOf(requests[r].models)
    /\ (session.status = "active" /\ session.routing_pattern = "coordinator")
           => session.coordinator_model_id \in IdsOf(session.models)

(* C11: the status of the session changes only from idle to active, from   *)
(* active to paused, from paused to active and from any state to           *)
(* terminated, and a terminated session stays as it is.                    *)
LifecycleTransitions ==
    [][/\ session'.status # session.status =>
              \/ <<session.status, session'.status>> \in
                     {<<"idle", "active">>, <<"active", "paused">>,
                      <<"paused", "active">>}
              \/ session'.status = "terminated"
       /\ session.status = "terminated" => session' = session]_vars

UserMessages(h) == SelectSeq(h, LAMBDA msg : msg.role = "user")

PausedRejectsMessages ==
    [][\A s \in Sessions :
          status[s] = "paused" =>
              /\ \A i \in 1..Len(ops') : i > Len(ops) => ops'[i].session # s
              /\ UserMessages(history'[s]) = UserMessages(history[s])]_vars

(* C13: an operation that an endpoint's failure has ended leaves its       *)
(* session active, on the server and in the store of the page showing it.  *)
EndpointFailureKeepsStatus ==
    \A i \in 1..Len(ops) :
        ops[i].pc = "raised" =>
            /\ status[ops[i].session] = "active"
            /\ session.id = ops[i].session => session.status = "active"

(* The failure of an operation of the page's session has reached the page. *)
FailureReachedThePage ==
    \E i \in 1..Len(ops) :
        /\ ops[i].pc = "raised"
        /\ session.id = ops[i].session
        /\ Len(EventsOfType(i, "error")) = 1
        /\ ws # NoSocket
        /\ sockets[ws].received = Len(events[session.id])

(* C14: a Coordinator operation that has returned, and whose coordinator   *)
(* selected some specialists, emitted a synthesized response if and only   *)
(* if more than one of them responded, after the responses of the          *)
(* specialists, each of which it emitted as well.                          *)
Succeeded(i) == {e \in Models : ops[i].calls[e].st = "ok"}

IsSynthesis(ev) == ev.type = "model_response" /\ ev.synthesized

IsSpecialistResponse(ev) == ev.type = "model_response" /\ ~ev.synthesized

CoordinatorSynthesis ==
    \A i \in 1..Len(ops) :
        (routing_pattern[ops[i].session] = "coordinator"
           /\ Ended(i) /\ ops[i].pc = "done"
           /\ parse_selection(ops[i].payload) # {}) =>
            LET evs == EventsOf(i)
                synth == {k \in 1..Len(evs) : IsSynthesis(evs[k])}
                raw == {k \in 1..Len(evs) : IsSpecialistResponse(evs[k])}
            IN  /\ Cardinality(synth) <= 1
                /\ Cardinality(synth) = 1 <=> Cardinality(Succeeded(i)) > 1
                /\ \A k \in synth : \A j \in raw : j < k
                /\ \A e \in Succeeded(i) :
                       Cardinality({j \in raw : evs[j].model_id = e}) = 1

(* C15: an operation emits complete once, as its last event, and has       *)
(* emitted it when it has ended.                                           *)
CompleteOnceAndLast ==
    \A i \in 1..Len(ops) :
        LET evs == EventsOf(i)
            comp == EventsOfType(i, "response_complete")
        IN  /\ Len(comp) <= 1
            /\ Len(comp) = 1 => evs[Len(evs)].type = "response_complete"
            /\ ~InFlight(ops[i]) => Len(comp) = 1

RECURSIVE SumUsageTokens(_, _)
SumUsageTokens(u, n) == IF n = 0 THEN 0 ELSE u[n].tokens + SumUsageTokens(u, n - 1)

RECURSIVE SumUsageCost(_, _)
SumUsageCost(u, n) == IF n = 0 THEN 0 ELSE u[n].cost + SumUsageCost(u, n - 1)

TotalsNeverDecrease ==
    [][/\ \A s \in Sessions :
              /\ total_tokens'[s] >= total_tokens[s]
              /\ total_cost'[s] >= total_cost[s]
              /\ \A e \in Models :
                     /\ usage'[s][e].tokens >= usage[s][e].tokens
                     /\ usage'[s][e].cost >= usage[s][e].cost
       /\ session'.id = session.id =>
              /\ session'.total_tokens >= session.total_tokens
              /\ session'.total_cost >= session.total_cost]_vars

(* The page has added the totals of two operations of its session. *)
Received(k) == SubSeq(events[sockets[k].session], 1, sockets[k].received)

TwoCompletionsCounted ==
    /\ session.id = 1
    /\ ws # NoSocket
    /\ Len(SelectSeq(Received(ws), LAMBDA ev : ev.type = "response_complete")) = 2
    /\ session.total_tokens >= 2
    /\ session.total_cost > 0

(* C23: every step leaves what a session's history held as the beginning   *)
(* of what it holds afterwards, and each message it adds that is not the   *)
(* user's comes from a model of the session; the page's list of messages   *)
(* grows in the same way while the page shows the same session.            *)
IsPrefix(a, b) == Len(a) <= Len(b) /\ SubSeq(b, 1, Len(a)) = a

Added(a, b) == SubSeq(b, Len(a) + 1, Len(b))

HistoryAppendOnly ==
    [][/\ \A s \in Sessions :
              /\ IsPrefix(history[s], history'[s])
              /\ \A k \in 1..Len(Added(history[s], history'[s])) :
                     Added(history[s], history'[s])[k].role # "user" =>
                         Added(history[s], history'[s])[k].model_id \in ModelsOf(s)
       /\ session'.id = session.id => IsPrefix(messages, messages')]_vars

(* Two turns are in the history of session 1, and the page lists replies. *)
HistoryOfTwoTurns ==
    /\ Len(UserMessages(history[1])) = 2
    /\ Len(history[1]) = 4
    /\ Len(messages) = 2

(* C24: a step changes the history and the usage of at most one session,   *)
(* and a message that arrives when every earlier operation has returned    *)
(* is dispatched to the model at the position of its own session's count   *)
(* of earlier messages, whatever was routed in other sessions.             *)
OwnState(s) == <<history[s], total_tokens[s], total_cost[s], usage[s]>>

PolicyStatePerSession ==
    [][/\ \A s, t \in Sessions :
              (s # t /\ OwnState(s)' # OwnState(s)) => OwnState(t)' = OwnState(t)
       /\ (Len(ops') = Len(ops) + 1
             /\ \A j \in 1..Len(ops) : ops[j].pc = "done") =>
              LET o == ops'[Len(ops')]
                  m == session_models[o.session]
                  k == Cardinality(OpsOf(o.session))
              IN  Dispatched(o) = <<m[(k % Len(m)) + 1]>>]_vars

(* C25: once the proposals of a Voting operation have all settled and      *)
(* phase 1 is over, the models asked to vote are exactly those whose       *)
(* proposal succeeded, each vote is for one of their proposals, and the    *)
(* winner is one of them.                                                  *)
Proposed(o) == {e \in Models : o.calls[e].st = "ok"}

AskedToVote(o) == {e \in Models : o.votes[e].st # "none"}

VotersAreSuccessfulProposers ==
    \A i \in 1..Len(ops) :
        (/\ routing_pattern[ops[i].session] = "voting"
         /\ ops[i].pc # "route"
         /\ \A e \in Models : ops[i].calls[e].st # "pending") =>
            /\ AskedToVote(ops[i]) = Proposed(ops[i])
            /\ \A e \in Models :
                   ops[i].votes[e].st = "ok" =>
                       GatherResults(ops[i])[ops[i].votes[e].choice].model_id
                           \in Proposed(ops[i])
            /\ Ended(i) /\ ops[i].pc = "done" => ops[i].winner \in Proposed(ops[i])

(* C26: a Voting operation that has returned emitted one response event    *)
(* for each proposal, then exactly one vote_result event, then complete,   *)
(* and nothing else.                                                       *)
VotingEventOrder ==
    \A i \in 1..Len(ops) :
        (routing_pattern[ops[i].session] = "voting" /\ ops[i].pc = "done") =>
            LET evs == EventsOf(i)
                n == Len(session_models[ops[i].session])
            IN  /\ Len(evs) = n + 2
                /\ \A k \in 1..n : evs[k].type = "model_response"
                /\ \A e \in ModelsOf(ops[i].session) :
                       Len(EventsAbout(i, "model_response", e)) = 1
                /\ evs[n + 1].type = "vote_result"
                /\ evs[n + 2].type = "response_complete"

(* C27: while a call of an operation is outstanding, no step writes the    *)
(* history of the operation's session.                                     *)
HistoryQuietDuringDispatch ==
    [][\A i \in 1..Len(ops) :
          (\E e \in Models : ops[i].calls[e].st = "pending") =>
              history'[ops[i].session] = history[ops[i].session]]_vars

(* C28: every message that was sent is eventually routed, and its          *)
(* operation eventually emits its complete event.                          *)
Completed(n) ==
    /\ Len(ops) >= n
    /\ Len(EventsOfType(n, "response_complete")) = 1

EveryOperationCompletes ==
    \A n \in 1..MaxOps :
        (Len(ops) + Waiting(NumSessions) >= n) ~> Completed(n)

(* C29: while a message the page has sent has neither its complete event   *)
(* nor an error event received by the page, isLoading is true, and the     *)
(* page never has two such messages.                                       *)
Terminal(ev) == ev.type \in {"response_complete", "error"}

Outstanding == Len(ops) + Waiting(NumSessions) - Len(SelectSeq(Received(ws), Terminal))

InputDisabledUntilComplete ==
    ws # NoSocket =>
        /\ Outstanding >= 1 => isLoading
        /\ Outstanding <= 1

(* C30: a handler of a socket that is no longer the store's leaves the     *)
(* store of a later session as it is; isConnected is true only while the   *)
(* store's socket is open; and the messages and the totals of the session  *)
(* in the store are those of the events received on the store's socket.    *)
IsResponse(ev) == ev.type = "model_response"

IsComplete(ev) == ev.type = "response_complete"

MessagesFrom(evs) ==
    LET resp == SelectSeq(evs, IsResponse)
    IN  [k \in 1..Len(resp) |-> ChatMessage(resp[k])]

StoreFollowsItsSocket ==
    /\ isConnected => (ws # NoSocket /\ sockets[ws].state = "open")
    /\ (session.id # NoSession /\ ws # NoSocket) =>
           /\ sockets[ws].session = session.id
           /\ messages = MessagesFrom(Received(ws))
           /\ session.total_tokens = SumTokens(SelectSeq(Received(ws), IsComplete))
           /\ session.total_cost = SumCost(SelectSeq(Received(ws), IsComplete))

StaleSocketsIsolated ==
    [][/\ StoreFollowsItsSocket
       /\ \A k \in 1..Len(sockets) :
              (/\ session.id # NoSession
               /\ sockets[k].session # session.id
               /\ Len(sockets') = Len(sockets)
               /\ sockets'[k] # sockets[k]) =>
                  /\ isConnected' = isConnected
                  /\ messages' = messages
                  /\ session' = session]_vars

====
